---- MODULE Spec2Model ----
(***************************************************************************)
(* The schema reconciler of SkillsTown (auto_migration.py).                *)
(*                                                                         *)
(* run_auto_migration opens one connection and makes a fixed sequence of   *)
(* calls: check_and_add_column and create_table_if_not_exists, each of     *)
(* which introspects the database, issues at most one DDL statement and    *)
(* commits it, and swallows every exception; then one UPDATE that          *)
(* backfills skillstown_quiz_attempts.attempt_api_id; then `return True`.  *)
(*                                                                         *)
(* The database is PostgreSQL (SERIAL, `id::text`, the postgres:// URL     *)
(* rewrite) behind an SQLAlchemy 2 connection (conn.commit()): a statement *)
(* that references a missing table is rejected, and once a statement has   *)
(* failed inside the connection's transaction every later statement on     *)
(* that connection, introspection included, fails too, because the code    *)
(* never rolls back.                                                       *)
(***************************************************************************)
EXTENDS Integers, Sequences, FiniteSets, TLC

VARIABLES schema,        \* committed schema: table name -> (column name -> definition)
          rows,          \* committed data: table name -> (row id -> (column name -> value))
          phase,         \* "idle" | "running" | "returned"
          step,          \* position in the body of run_auto_migration
          changes_made,  \* the local variable of run_auto_migration
          txFailed,      \* the connection's transaction is in the failed state
          result,        \* return value of the last invocation: "none" | "True" | "False"
          startSchema,   \* schema when the current invocation started
          startRows,     \* rows when the current invocation started
          created,       \* tables created by the current invocation
          added,         \* <<table, column>> pairs added by the current invocation
          issued,        \* DDL statements handed to conn.execute by the current invocation
          envFault,      \* the current invocation met a failure that the schema does not explain
          inspectFailed, \* listing the tables or the columns failed in the current invocation
          prevOk         \* the invocation before the current one returned True and met no such failure

migrationVars == <<schema, rows, phase, step, changes_made, txFailed, result,
                   startSchema, startRows, created, added, issued, envFault,
                   inspectFailed, prevOk>>

\* The application boot sequence (app.py: create_app, init_database)
VARIABLES RENDER,          \* os.environ.get('RENDER'): NoValue when unset
          DATABASE_URL,    \* os.environ.get('DATABASE_URL'): NoValue when unset
          FLASK_ENV,       \* os.environ.get('FLASK_ENV'): NoValue when unset
          migrationModule, \* "auto_migration" | "fallback": what line 25 imported
          pc,              \* position of the main thread in create_app
          migrationCalls,  \* calls of run_auto_migration made by this create_app
          migrationResult, \* what the call returned: "none" | "True" | "False"
          createAll,       \* db.create_all(): "not_called" | "done" | "raised"
          pingThread,      \* the delayed_start thread: "none" | "sleeping" | "pinging"
          routesRegistered,\* the route decorators of create_app have run
          requests         \* requests that route handlers have served

bootVars == <<RENDER, DATABASE_URL, FLASK_ENV, migrationModule, pc, migrationCalls,
              migrationResult, createAll, pingThread, routesRegistered, requests>>

\* One UserLearningProgress record (app.py: update_user_learning_progress)
VARIABLES progressExists,  \* the record of this (user, course) is in the table
          learning_curve,  \* the decoded JSON list: entries [overallScore, attemptId]
          overall_progress,
          mastery_level,
          attempts,        \* every entry ever appended, in order
          calls,           \* calls of update_user_learning_progress made so far
          lastReturn       \* what the last call returned: "none" | "progress" | "None"

progressVars == <<progressExists, learning_curve, overall_progress, mastery_level,
                  attempts, calls, lastReturn>>

\* The quiz routes (app.py: generate_quiz, get_quiz_details, start_quiz_attempt,
\* complete_quiz_attempt) and the tables they write
VARIABLES courseQuizzes,   \* CourseQuiz rows: [quiz_api_id, user_course_id]
          quizAttempts,    \* CourseQuizAttempt rows by id: [attempt_api_id, user_id, quiz, score]
          progressOf,      \* UserLearningProgress rows: <<user_id, course_id>> -> record
          qHandler,        \* the handler of the current request, "none" before the first
          qUser,           \* current_user.id of the current request
          qArg,            \* the course id, quiz id or attempt id in the URL of the request
          qPc,             \* "idle" | "loop" (in the retry loop of generate_quiz) | "done"
          qCalls,          \* outcomes of the quiz API calls of the current request, in order
          qAnswer,         \* HTTP status the handler answered with, 0 while it runs
          qOwned,          \* the quiz of the request is of a course of current_user
          qCommits         \* commits of the current request that succeeded

quizVars == <<courseQuizzes, quizAttempts, progressOf, qHandler, qUser, qArg, qPc, qCalls,
              qAnswer, qOwned, qCommits>>

\* SelfPingService and the `schedule` module
VARIABLES running,         \* self.running
          jobs,            \* number of jobs registered with the `schedule` module
          schedulers,      \* run_scheduler threads, oldest first: "while", "sleep", "exited"
          initialPings,    \* initial ping threads: "sleep", "done"
          pingCalls        \* calls of start_pinging and stop_pinging made so far

pingVars == <<running, jobs, schedulers, initialPings, pingCalls>>

\* two invocations of run_auto_migration on one database
VARIABLES rPc,             \* per invocation: "inspect", "execute" or "returned"
          rStep,           \* per invocation: the call of the body it is at
          rFailed,         \* per invocation: "no", or why its transaction has failed
          timesCreated     \* per table and column: statements that created it and committed

raceVars == <<rPc, rStep, rFailed, timesCreated>>

\* the enrolment and course routes
VARIABLES userCourses,     \* UserCourse rows, the id of a row being its index
          courseDetails,   \* CourseDetail rows: user_course_id -> row
          enrolRequests,   \* enroll_course requests, in the order of their query
          cAnswer          \* what the last course route answered

courseVars == <<userCourses, courseDetails, enrolRequests, cAnswer>>

vars == <<migrationVars, bootVars, progressVars, quizVars, pingVars, raceVars, courseVars>>

----------------------------------------------------------------------------
(* Bounds *)

MaxRows == 1      \* rows a pre-existing skillstown_quiz_attempts holds before the first run
MaxLegacy == 1    \* pre-existing tables that have only their id column
MaxRequests == 2  \* requests served after the application has started
MaxAttempts == 3  \* quiz completions recorded on top of the record's initial curve
MaxQuizRows == 1  \* CourseQuiz rows the quiz routes create
MaxStarted == 1   \* CourseQuizAttempt rows the quiz routes create
MaxCompleted == 1 \* completions of one attempt, and entries of one learning curve

----------------------------------------------------------------------------
(* Table names and values *)

students == "students"
user_courses == "skillstown_user_courses"
course_details == "skillstown_course_details"
user_profiles == "skillstown_user_profiles"
course_quizzes == "skillstown_course_quizzes"
quiz_attempts == "skillstown_quiz_attempts"
learning_progress == "skillstown_user_learning_progress"

ManagedTables == {user_courses, course_details, user_profiles, course_quizzes,
                  quiz_attempts, learning_progress}
AllTables == ManagedTables \cup {students}

NULL == "<NULL>"

\* os.environ.get of a variable that is not set; a score that is None
NoValue == "<None>"

\* 'legacy-' || id::text
LegacyValue(id) == "legacy-" \o id

----------------------------------------------------------------------------
(* Column definitions: the text after the column name *)

\* the table a column definition references by foreign key, "" when none
RefOf(def) ==
  CASE def \in {"VARCHAR(36) NOT NULL REFERENCES students(id) ON DELETE CASCADE",
                "VARCHAR(36) NOT NULL REFERENCES students(id)"} -> students
    [] def = "INTEGER NOT NULL REFERENCES skillstown_user_courses(id) ON DELETE CASCADE"
         -> user_courses
    [] def \in {"INTEGER NOT NULL REFERENCES skillstown_course_quizzes(id) ON DELETE CASCADE",
                "INTEGER REFERENCES skillstown_course_quizzes(id) ON DELETE CASCADE"}
         -> course_quizzes
    [] OTHER -> ""

\* the value ADD COLUMN gives the new column in the rows that already exist
DefaultOf(def) ==
  CASE def = "INTEGER DEFAULT 0" -> "0"
    [] def = "TIMESTAMP DEFAULT CURRENT_TIMESTAMP" -> "CURRENT_TIMESTAMP"
    [] def = "VARCHAR(50) DEFAULT 'enrolled'" -> "enrolled"
    [] def = "TEXT DEFAULT '{}'" -> "{}"
    [] def = "TEXT DEFAULT '[]'" -> "[]"
    [] def = "VARCHAR(20) DEFAULT 'beginner'" -> "beginner"
    [] def = "VARCHAR(100) NOT NULL DEFAULT ''" -> ""
    [] OTHER -> NULL

----------------------------------------------------------------------------
(* The CREATE TABLE statements: sequences of <<column name, definition>> *)

skillstown_user_courses_sql ==
  << <<"id", "SERIAL PRIMARY KEY">>,
     <<"user_id", "VARCHAR(36) NOT NULL REFERENCES students(id) ON DELETE CASCADE">>,
     <<"category", "VARCHAR(100) NOT NULL">>,
     <<"course_name", "VARCHAR(255) NOT NULL">>,
     <<"status", "VARCHAR(50) DEFAULT 'enrolled'">>,
     <<"created_at", "TIMESTAMP DEFAULT CURRENT_TIMESTAMP">> >>

skillstown_course_details_sql ==
  << <<"id", "SERIAL PRIMARY KEY">>,
     <<"user_course_id", "INTEGER NOT NULL REFERENCES skillstown_user_courses(id) ON DELETE CASCADE">>,
     <<"description", "TEXT">>,
     <<"progress_percentage", "INTEGER DEFAULT 0">>,
     <<"completed_at", "TIMESTAMP">>,
     <<"materials", "TEXT">>,
     <<"quiz_results", "TEXT">>,
     <<"created_at", "TIMESTAMP DEFAULT CURRENT_TIMESTAMP">> >>

skillstown_user_profiles_sql ==
  << <<"id", "SERIAL PRIMARY KEY">>,
     <<"user_id", "VARCHAR(36) NOT NULL REFERENCES students(id)">>,
     <<"cv_text", "TEXT">>,
     <<"job_description", "TEXT">>,
     <<"skills", "TEXT">>,
     <<"skill_analysis", "TEXT">>,
     <<"uploaded_at", "TIMESTAMP DEFAULT CURRENT_TIMESTAMP">> >>

skillstown_course_quizzes_sql ==
  << <<"id", "SERIAL PRIMARY KEY">>,
     <<"user_course_id", "INTEGER NOT NULL REFERENCES skillstown_user_courses(id) ON DELETE CASCADE">>,
     <<"quiz_api_id", "VARCHAR(100) NOT NULL">>,
     <<"quiz_title", "VARCHAR(255)">>,
     <<"quiz_description", "TEXT">>,
     <<"questions_count", "INTEGER">>,
     <<"created_at", "TIMESTAMP DEFAULT CURRENT_TIMESTAMP">> >>

skillstown_quiz_attempts_sql ==
  << <<"id", "SERIAL PRIMARY KEY">>,
     <<"user_id", "VARCHAR(36) NOT NULL REFERENCES students(id) ON DELETE CASCADE">>,
     <<"course_quiz_id", "INTEGER NOT NULL REFERENCES skillstown_course_quizzes(id) ON DELETE CASCADE">>,
     <<"attempt_api_id", "VARCHAR(100) NOT NULL">>,
     <<"score", "INTEGER">>,
     <<"total_questions", "INTEGER">>,
     <<"correct_answers", "INTEGER">>,
     <<"feedback_strengths", "TEXT">>,
     <<"feedback_improvements", "TEXT">>,
     <<"user_answers", "TEXT">>,
     <<"completed_at", "TIMESTAMP DEFAULT CURRENT_TIMESTAMP">> >>

skillstown_user_learning_progress_sql ==
  << <<"id", "SERIAL PRIMARY KEY">>,
     <<"user_id", "VARCHAR(36) NOT NULL REFERENCES students(id)">>,
     <<"course_id", "VARCHAR(50) NOT NULL">>,
     <<"knowledge_areas", "TEXT DEFAULT '{}'">>,
     <<"weak_areas", "TEXT DEFAULT '[]'">>,
     <<"strong_areas", "TEXT DEFAULT '[]'">>,
     <<"recommended_topics", "TEXT DEFAULT '[]'">>,
     <<"learning_curve", "TEXT DEFAULT '[]'">>,
     <<"overall_progress", "INTEGER DEFAULT 0">>,
     <<"mastery_level", "VARCHAR(20) DEFAULT 'beginner'">>,
     <<"last_updated", "TIMESTAMP DEFAULT CURRENT_TIMESTAMP">> >>

CreateSql(t) ==
  CASE t = user_courses -> skillstown_user_courses_sql
    [] t = course_details -> skillstown_course_details_sql
    [] t = user_profiles -> skillstown_user_profiles_sql
    [] t = course_quizzes -> skillstown_course_quizzes_sql
    [] t = quiz_attempts -> skillstown_quiz_attempts_sql
    [] t = learning_progress -> skillstown_user_learning_progress_sql

----------------------------------------------------------------------------
(* The missing-column lists: sequences of <<column name, definition>> *)

course_details_missing_columns ==
  << <<"quiz_results", "TEXT">>,
     <<"progress_percentage", "INTEGER DEFAULT 0">>,
     <<"completed_at", "TIMESTAMP">>,
     <<"materials", "TEXT">>,
     <<"created_at", "TIMESTAMP DEFAULT CURRENT_TIMESTAMP">> >>

quiz_attempts_missing_columns ==
  << <<"attempt_api_id", "VARCHAR(100)">>,
     <<"course_quiz_id", "INTEGER REFERENCES skillstown_course_quizzes(id) ON DELETE CASCADE">>,
     <<"course_id", "INTEGER">>,
     <<"score", "INTEGER">>,
     <<"total_questions", "INTEGER">>,
     <<"correct_answers", "INTEGER">>,
     <<"feedback_strengths", "TEXT">>,
     <<"feedback_improvements", "TEXT">>,
     <<"user_answers", "TEXT">>,
     <<"completed_at", "TIMESTAMP DEFAULT CURRENT_TIMESTAMP">> >>

user_courses_missing_columns ==
  << <<"status", "VARCHAR(50) DEFAULT 'enrolled'">>,
     <<"created_at", "TIMESTAMP DEFAULT CURRENT_TIMESTAMP">> >>

learning_progress_missing_columns ==
  << <<"knowledge_areas", "TEXT DEFAULT '{}'">>,
     <<"weak_areas", "TEXT DEFAULT '[]'">>,
     <<"strong_areas", "TEXT DEFAULT '[]'">>,
     <<"recommended_topics", "TEXT DEFAULT '[]'">>,
     <<"learning_curve", "TEXT DEFAULT '[]'">>,
     <<"overall_progress", "INTEGER DEFAULT 0">>,
     <<"mastery_level", "VARCHAR(20) DEFAULT 'beginner'">>,
     <<"last_updated", "TIMESTAMP DEFAULT CURRENT_TIMESTAMP">> >>

MissingColumns(t) ==
  CASE t = course_details -> course_details_missing_columns
    [] t = quiz_attempts -> quiz_attempts_missing_columns
    [] t = user_courses -> user_courses_missing_columns
    [] t = learning_progress -> learning_progress_missing_columns
    [] OTHER -> << >>

\* a sequence of <<column name, definition>> as a function column name -> definition
ColumnsOf(sql) ==
  [c \in {sql[i][1] : i \in DOMAIN sql} |->
     sql[CHOOSE i \in DOMAIN sql : sql[i][1] = c][2]]

----------------------------------------------------------------------------
(* The body of run_auto_migration: its calls, in order *)

AddCol(t, c, d) == [op |-> "add_column", table |-> t, column |-> c, definition |-> d]
Create(t) == [op |-> "create_table", table |-> t, column |-> "", definition |-> ""]
ColumnLoop(t, list) == [i \in DOMAIN list |-> AddCol(t, list[i][1], list[i][2])]

\* the quiz attempts table created before the quizzes table it references
BodyMisordered ==
  << AddCol(students, "quiz_user_uuid", "VARCHAR(36) UNIQUE"),
     Create(user_courses),
     Create(course_details) >>
  \o ColumnLoop(course_details, course_details_missing_columns)
  \o << Create(user_profiles),
        Create(quiz_attempts),
        Create(course_quizzes) >>
  \o ColumnLoop(quiz_attempts, quiz_attempts_missing_columns)
  \o << Create(learning_progress) >>
  \o ColumnLoop(user_courses, user_courses_missing_columns)
  \o ColumnLoop(learning_progress, learning_progress_missing_columns)
  \o << AddCol(quiz_attempts, "attempt_api_id", "VARCHAR(100) NOT NULL DEFAULT ''") >>

Body ==
  << AddCol(students, "quiz_user_uuid", "VARCHAR(36) UNIQUE"),
     Create(user_courses),
     Create(course_details) >>
  \o ColumnLoop(course_details, course_details_missing_columns)
  \o << Create(user_profiles),
        Create(course_quizzes),
        Create(quiz_attempts) >>
  \o ColumnLoop(quiz_attempts, quiz_attempts_missing_columns)
  \o << Create(learning_progress) >>
  \o ColumnLoop(user_courses, user_courses_missing_columns)
  \o ColumnLoop(learning_progress, learning_progress_missing_columns)
  \o << AddCol(quiz_attempts, "attempt_api_id", "VARCHAR(100) NOT NULL DEFAULT ''") >>

UpdateStep == Len(Body) + 1
ReturnStep == Len(Body) + 2

\* a connection on which a statement that follows a failed one is executed all the same
NextStepContinue(k, failed) == k + 1

\* The call that acts next. Once a statement has failed the transaction stays failed:
\* every call that is left raises at its first query, inside its own try / except, and
\* returns False, and so does the UPDATE; the next statement that acts is `return True`.
NextStep(k, failed) == IF failed THEN ReturnStep ELSE k + 1

----------------------------------------------------------------------------
(* The database *)

\* the list of existing tables taken as empty
TableExistsNever(s, t) == FALSE

\* `table_name in existing_tables`
TableExists(s, t) == t \in DOMAIN s

\* the column check dropped
ColumnMissingAlways(s, t, c) == TRUE

\* `column_name not in columns`
ColumnMissing(s, t, c) == c \notin DOMAIN s[t]

\* PostgreSQL rejects a definition that references a table or a column that is not there
Rejected(s, def) ==
  LET r == RefOf(def)
  IN  r # "" /\ ~(r \in DOMAIN s /\ "id" \in DOMAIN s[r])

\* CREATE TABLE t (...)
CreateRejected(s, t) == \E i \in DOMAIN CreateSql(t) : Rejected(s, CreateSql(t)[i][2])
SchemaAfterCreate(s, t) == (t :> ColumnsOf(CreateSql(t))) @@ s
RowsAfterCreate(r, t) == (t :> [id \in {} |-> << >>]) @@ r

\* the table rebuilt with the new column alone
SchemaAfterAddReplacing(s, t, c, def) == [s EXCEPT ![t] = (c :> def)]

\* ALTER TABLE t ADD COLUMN c def
SchemaAfterAdd(s, t, c, def) == [s EXCEPT ![t] = (c :> def) @@ s[t]]
RowsAfterAdd(r, t, c, def) ==
  [r EXCEPT ![t] = [id \in DOMAIN r[t] |-> (c :> DefaultOf(def)) @@ r[t][id]]]

\* UPDATE skillstown_quiz_attempts SET attempt_api_id = 'legacy-' || id::text
\*   WHERE attempt_api_id IS NULL OR attempt_api_id = ''
UpdateRejected(s) ==
  quiz_attempts \notin DOMAIN s \/ "attempt_api_id" \notin DOMAIN s[quiz_attempts]
\* the same UPDATE without its WHERE clause
RowsAfterUpdateAll(r) ==
  [r EXCEPT ![quiz_attempts] =
     [id \in DOMAIN r[quiz_attempts] |->
        [r[quiz_attempts][id] EXCEPT !["attempt_api_id"] = LegacyValue(r[quiz_attempts][id]["id"])]]]
RowsAfterUpdate(r) ==
  [r EXCEPT ![quiz_attempts] =
     [id \in DOMAIN r[quiz_attempts] |->
        IF r[quiz_attempts][id]["attempt_api_id"] \in {NULL, ""}
        THEN [r[quiz_attempts][id] EXCEPT !["attempt_api_id"] = LegacyValue(r[quiz_attempts][id]["id"])]
        ELSE r[quiz_attempts][id]]]

----------------------------------------------------------------------------
(* Schemas a database can hold before the first run *)

students_columns ==
  ("id" :> "VARCHAR(36) PRIMARY KEY") @@ ("quiz_user_uuid" :> "VARCHAR(36) UNIQUE")

\* a table as this code leaves it: created by its CREATE statement, its list applied
UpToDate(t) ==
  IF t = students THEN students_columns
  ELSE ColumnsOf(CreateSql(t)) @@ ColumnsOf(MissingColumns(t))

\* a table of an older deployment: only its key
Legacy(t) == [c \in {"id"} |-> UpToDate(t)[c]]

RowIds(n) == {ToString(i) : i \in 1..n}

InitialRow(s, t, id, attempt) ==
  [c \in DOMAIN s[t] |->
     IF c = "id" THEN id
     ELSE IF c = "attempt_api_id" THEN attempt
     ELSE "v"]

---------------------------------------------------------------------------------------------------------------------------------------------------
(* Actions *)

\* the application is not being started
BootIdle ==
  /\ RENDER = NoValue
  /\ DATABASE_URL = NoValue
  /\ FLASK_ENV = NoValue
  /\ migrationModule = "auto_migration"
  /\ pc = "start"
  /\ migrationCalls = 0
  /\ migrationResult = "none"
  /\ createAll = "not_called"
  /\ pingThread = "none"
  /\ routesRegistered = FALSE
  /\ requests = 0

\* no learning progress record
ProgressIdle ==
  /\ progressExists = FALSE
  /\ learning_curve = << >>
  /\ overall_progress = 0
  /\ mastery_level = "beginner"
  /\ attempts = << >>
  /\ calls = 0
  /\ lastReturn = "none"

\* no quiz, no attempt, no request
QuizIdle ==
  /\ courseQuizzes = {}
  /\ quizAttempts = << >>
  /\ progressOf = << >>
  /\ qHandler = "none"
  /\ qUser = ""
  /\ qArg = ""
  /\ qPc = "idle"
  /\ qCalls = << >>
  /\ qAnswer = 0
  /\ qOwned = FALSE
  /\ qCommits = 0

\* the service as __init__ leaves it
PingIdle ==
  /\ running = FALSE
  /\ jobs = 0
  /\ schedulers = << >>
  /\ initialPings = << >>
  /\ pingCalls = 0

\* no concurrent invocations
RaceIdle ==
  /\ rPc = << >>
  /\ rStep = << >>
  /\ rFailed = << >>
  /\ timesCreated = << >>

\* no enrolment
CourseIdle ==
  /\ userCourses = << >>
  /\ courseDetails = << >>
  /\ enrolRequests = << >>
  /\ cAnswer = "none"

\* no invocation of run_auto_migration, no database
MigrationIdle ==
  /\ schema = << >>
  /\ rows = << >>
  /\ phase = "idle"
  /\ step = 0
  /\ changes_made = FALSE
  /\ txFailed = FALSE
  /\ result = "none"
  /\ startSchema = << >>
  /\ startRows = << >>
  /\ created = {}
  /\ added = {}
  /\ issued = {}
  /\ envFault = FALSE
  /\ inspectFailed = FALSE
  /\ prevOk = FALSE

\* the handler of line 275 taken away: the exception leaves run_auto_migration
ReturnRaised == "raised"

\* `return False`: no DATABASE_URL (line 71), or create_engine / connect raised and the
\* handler of line 275 caught it (line 277)
ReturnFalse == "False"

Init ==
  \E present \in SUBSET AllTables :
  \E legacy \in SUBSET present :
  \E attempt \in [RowIds(MaxRows) -> {"", "tok"}] :
    /\ Cardinality(legacy) <= MaxLegacy
    /\ schema = [t \in present |-> IF t \in legacy THEN Legacy(t) ELSE UpToDate(t)]
    /\ rows = [t \in present |->
                 IF t = quiz_attempts
                 THEN [id \in RowIds(MaxRows) |-> InitialRow(schema, t, id, attempt[id])]
                 ELSE [id \in RowIds(1) |-> InitialRow(schema, t, id, "")]]
    /\ phase = "idle"
    /\ step = 0
    /\ changes_made = FALSE
    /\ txFailed = FALSE
    /\ result = "none"
    /\ startSchema = schema
    /\ startRows = rows
    /\ created = {}
    /\ added = {}
    /\ issued = {}
    /\ envFault = FALSE
    /\ inspectFailed = FALSE
    /\ prevOk = FALSE
    /\ BootIdle
    /\ ProgressIdle
    /\ QuizIdle
    /\ PingIdle
    /\ RaceIdle
    /\ CourseIdle

\* run_auto_migration is called: the connection opens, or the call returns False at once
StartRun ==
  /\ phase \in {"idle", "returned"}
  /\ prevOk' = (phase = "returned" /\ result = "True" /\ ~envFault)
  /\ changes_made' = FALSE
  /\ txFailed' = FALSE
  /\ envFault' = FALSE
  /\ inspectFailed' = FALSE
  /\ startSchema' = schema
  /\ startRows' = rows
  /\ created' = {}
  /\ added' = {}
  /\ issued' = {}
  /\ \/ /\ phase' = "running"
        /\ step' = 1
        /\ result' = "none"
     \/ /\ phase' = "returned"      \* no DATABASE_URL, or create_engine / connect raises
        /\ step' = 0
        /\ result' = ReturnFalse
  /\ UNCHANGED <<schema, rows, bootVars, progressVars, quizVars, pingVars, raceVars, courseVars>>

check_and_add_column ==
  /\ phase = "running"
  /\ step \in DOMAIN Body
  /\ Body[step].op = "add_column"
  /\ LET t == Body[step].table
         c == Body[step].column
         def == Body[step].definition
     IN
     \/ /\ txFailed' = TRUE         \* the inspector's query fails: caught, return False
        /\ envFault' = TRUE
        /\ inspectFailed' = TRUE
        /\ UNCHANGED <<schema, rows, changes_made, added, issued>>
     \/ /\ ~TableExists(schema, t)  \* return False
        /\ UNCHANGED <<schema, rows, changes_made, txFailed, added, issued, envFault,
                       inspectFailed>>
     \/ /\ TableExists(schema, t)
        /\ ~ColumnMissing(schema, t, c)   \* return False
        /\ UNCHANGED <<schema, rows, changes_made, txFailed, added, issued, envFault,
                       inspectFailed>>
     \/ /\ TableExists(schema, t)
        /\ ColumnMissing(schema, t, c)
        /\ issued' = issued \cup {Body[step]}
        /\ \/ /\ ~Rejected(schema, def)     \* executed and committed: return True
                                            \* (the table it references is always there)
              /\ schema' = SchemaAfterAdd(schema, t, c, def)
              /\ rows' = RowsAfterAdd(rows, t, c, def)
              /\ added' = added \cup {<<t, c>>}
              /\ changes_made' = TRUE
              /\ UNCHANGED <<txFailed, envFault, inspectFailed>>
           \/ /\ txFailed' = TRUE           \* the statement or its commit fails: caught
              /\ envFault' = TRUE
              /\ UNCHANGED <<schema, rows, changes_made, added, inspectFailed>>
  /\ step' = NextStep(step, txFailed')
  /\ UNCHANGED <<phase, result, startSchema, startRows, created, prevOk,
                 bootVars, progressVars, quizVars, pingVars, raceVars, courseVars>>

create_table_if_not_exists ==
  /\ phase = "running"
  /\ step \in DOMAIN Body
  /\ Body[step].op = "create_table"
  /\ LET t == Body[step].table
     IN
     \/ /\ txFailed' = TRUE         \* the inspector's query fails: caught, return False
        /\ envFault' = TRUE
        /\ inspectFailed' = TRUE
        /\ UNCHANGED <<schema, rows, changes_made, created, issued>>
     \/ /\ TableExists(schema, t)   \* return False
        /\ UNCHANGED <<schema, rows, changes_made, txFailed, created, issued, envFault,
                       inspectFailed>>
     \/ /\ ~TableExists(schema, t)
        /\ issued' = issued \cup {Body[step]}
        /\ \/ /\ ~CreateRejected(schema, t) \* executed and committed: return True
              /\ schema' = SchemaAfterCreate(schema, t)
              /\ rows' = RowsAfterCreate(rows, t)
              /\ created' = created \cup {t}
              /\ changes_made' = TRUE
              /\ UNCHANGED <<txFailed, envFault, inspectFailed>>
           \/ /\ CreateRejected(schema, t)  \* the statement raises: caught, return False
              /\ txFailed' = TRUE
              /\ UNCHANGED <<schema, rows, changes_made, created, envFault, inspectFailed>>
           \/ /\ txFailed' = TRUE           \* the statement or its commit fails: caught
              /\ envFault' = TRUE
              /\ UNCHANGED <<schema, rows, changes_made, created, inspectFailed>>
  /\ step' = NextStep(step, txFailed')
  /\ UNCHANGED <<phase, result, startSchema, startRows, added, prevOk,
                 bootVars, progressVars, quizVars, pingVars, raceVars, courseVars>>

\* the UPDATE of the legacy records, inside its own try / except
update_legacy_records ==
  /\ phase = "running"
  /\ step = UpdateStep
  /\ step' = ReturnStep
  /\ \/ /\ ~UpdateRejected(schema)  \* executed and committed (the column is always there)
        /\ rows' = RowsAfterUpdate(rows)
        /\ UNCHANGED <<txFailed, envFault>>
     \/ /\ txFailed' = TRUE         \* the statement or its commit fails: caught, a warning
        /\ envFault' = TRUE
        /\ UNCHANGED rows
  /\ UNCHANGED <<schema, phase, changes_made, result, startSchema, startRows,
                 created, added, issued, inspectFailed, prevOk, bootVars, progressVars, quizVars, pingVars, raceVars, courseVars>>

\* `return True`; the connection closes
return_true ==
  /\ phase = "running"
  /\ step = ReturnStep
  /\ phase' = "returned"
  /\ result' = "True"
  /\ UNCHANGED <<schema, rows, step, changes_made, txFailed, startSchema, startRows,
                 created, added, issued, envFault, inspectFailed, prevOk,
                 bootVars, progressVars, quizVars, pingVars, raceVars, courseVars>>

Next ==
  \/ StartRun
  \/ check_and_add_column
  \/ create_table_if_not_exists
  \/ update_legacy_records
  \/ return_true

Spec == Init /\ [][Next]_vars

----------------------------------------------------------------------------
(* The boot sequence of the application: create_app and init_database *)

RenderValues == {NoValue, "", "true"}
DatabaseUrls == {NoValue, "sqlite:///skillstown.db", "postgres://db/skillstown",
                 "postgresql://db/skillstown"}
FlaskEnvs == {NoValue, "development", "production"}

\* bool(v) of an environment value
Truthy(v) == v \notin {NoValue, ""}

\* s.startswith(p)
StartsWith(s, p) == Len(s) >= Len(p) /\ SubSeq(s, 1, Len(p)) = p

\* os.environ.get(name, default)
EnvGet(v, default) == IF v = NoValue THEN default ELSE v

\* the RENDER test alone
is_productionRenderOnly == Truthy(RENDER)

is_production ==
  \/ Truthy(RENDER)
  \/ StartsWith(EnvGet(DATABASE_URL, ""), "postgres")
  \/ FLASK_ENV = "production"

\* What the call of run_auto_migration can return: the fallback of lines 27-29 returns
\* True; auto_migration.run_auto_migration returns False when DATABASE_URL is missing
\* and True or False otherwise.
MigrationResults ==
  IF migrationModule = "fallback" THEN {"True"}
  ELSE IF ~Truthy(DATABASE_URL) THEN {"False"}
  ELSE {"True", "False"}

\* start-up given up when the migration reports a failure
AfterMigrationChecked(r) == IF r = "True" THEN "create_all" ELSE "failed"

\* init_database does not read what run_auto_migration returns: db.create_all() is next
AfterMigration(r) == "create_all"

InitBoot ==
  /\ RENDER \in RenderValues
  /\ DATABASE_URL \in DatabaseUrls
  /\ FLASK_ENV \in FlaskEnvs
  /\ migrationModule \in {"auto_migration", "fallback"}
  /\ pc = "start"
  /\ migrationCalls = 0
  /\ migrationResult = "none"
  /\ createAll = "not_called"
  /\ pingThread = "none"
  /\ routesRegistered = FALSE
  /\ requests = 0
  /\ MigrationIdle
  /\ ProgressIdle
  /\ QuizIdle
  /\ PingIdle
  /\ RaceIdle
  /\ CourseIdle

\* create_app up to `with app.app_context(): init_database()`
create_app ==
  /\ pc = "start"
  /\ pc' = "init_database"
  /\ UNCHANGED <<RENDER, DATABASE_URL, FLASK_ENV, migrationModule, migrationCalls,
                 migrationResult, createAll, pingThread, routesRegistered, requests>>
  /\ UNCHANGED <<migrationVars, progressVars, quizVars, pingVars, raceVars, courseVars>>

\* init_database: `if is_production(): run_auto_migration()`, the call being made
init_database ==
  /\ pc = "init_database"
  /\ IF is_production
     THEN /\ pc' = "run_auto_migration"
          /\ migrationCalls' = migrationCalls + 1
     ELSE /\ pc' = "create_all"
          /\ UNCHANGED migrationCalls
  /\ UNCHANGED <<RENDER, DATABASE_URL, FLASK_ENV, migrationModule, migrationResult,
                 createAll, pingThread, routesRegistered, requests>>
  /\ UNCHANGED <<migrationVars, progressVars, quizVars, pingVars, raceVars, courseVars>>

\* the call of run_auto_migration returns
run_auto_migration ==
  /\ pc = "run_auto_migration"
  /\ \E r \in MigrationResults :
       /\ migrationResult' = r
       /\ pc' = AfterMigration(r)
  /\ UNCHANGED <<RENDER, DATABASE_URL, FLASK_ENV, migrationModule, migrationCalls,
                 createAll, pingThread, routesRegistered, requests>>
  /\ UNCHANGED <<migrationVars, progressVars, quizVars, pingVars, raceVars, courseVars>>

\* db.create_all(); an exception is caught by the handler of line 326
db_create_all ==
  /\ pc = "create_all"
  /\ createAll' \in {"done", "raised"}
  /\ pc' = "ping_service"
  /\ UNCHANGED <<RENDER, DATABASE_URL, FLASK_ENV, migrationModule, migrationCalls,
                 migrationResult, pingThread, routesRegistered, requests>>
  /\ UNCHANGED <<migrationVars, progressVars, quizVars, pingVars, raceVars, courseVars>>

\* `if is_production():` ... threading.Thread(target=delayed_start, daemon=True).start()
start_ping_thread ==
  /\ pc = "ping_service"
  /\ pingThread' = IF is_production THEN "sleeping" ELSE pingThread
  /\ pc' = "routes"
  /\ UNCHANGED <<RENDER, DATABASE_URL, FLASK_ENV, migrationModule, migrationCalls,
                 migrationResult, createAll, routesRegistered, requests>>
  /\ UNCHANGED <<migrationVars, progressVars, quizVars, pingVars, raceVars, courseVars>>

\* the @app.route decorators
register_routes ==
  /\ pc = "routes"
  /\ routesRegistered' = TRUE
  /\ pc' = "return"
  /\ UNCHANGED <<RENDER, DATABASE_URL, FLASK_ENV, migrationModule, migrationCalls,
                 migrationResult, createAll, pingThread, requests>>
  /\ UNCHANGED <<migrationVars, progressVars, quizVars, pingVars, raceVars, courseVars>>

\* `return app`: the server has the application
return_app ==
  /\ pc = "return"
  /\ pc' = "serving"
  /\ UNCHANGED <<RENDER, DATABASE_URL, FLASK_ENV, migrationModule, migrationCalls,
                 migrationResult, createAll, pingThread, routesRegistered, requests>>
  /\ UNCHANGED <<migrationVars, progressVars, quizVars, pingVars, raceVars, courseVars>>

\* the delayed_start thread: time.sleep(30) is over, ping_service.start_pinging()
delayed_start ==
  /\ pingThread = "sleeping"
  /\ pingThread' = "pinging"
  /\ UNCHANGED <<RENDER, DATABASE_URL, FLASK_ENV, migrationModule, pc, migrationCalls,
                 migrationResult, createAll, routesRegistered, requests>>
  /\ UNCHANGED <<migrationVars, progressVars, quizVars, pingVars, raceVars, courseVars>>

\* a route handler serves a request
handle_request ==
  /\ pc = "serving"
  /\ routesRegistered
  /\ requests < MaxRequests
  /\ requests' = requests + 1
  /\ UNCHANGED <<RENDER, DATABASE_URL, FLASK_ENV, migrationModule, pc, migrationCalls,
                 migrationResult, createAll, pingThread, routesRegistered>>
  /\ UNCHANGED <<migrationVars, progressVars, quizVars, pingVars, raceVars, courseVars>>

MainThread ==
  \/ create_app
  \/ init_database
  \/ run_auto_migration
  \/ db_create_all
  \/ start_ping_thread
  \/ register_routes
  \/ return_app

NextBoot ==
  \/ create_app
  \/ init_database
  \/ run_auto_migration
  \/ db_create_all
  \/ start_ping_thread
  \/ register_routes
  \/ return_app
  \/ delayed_start
  \/ handle_request

\* the main thread runs its statements one after the other
SpecBoot == InitBoot /\ [][NextBoot]_vars /\ WF_vars(MainThread)

----------------------------------------------------------------------------
(* The learning progress of one user in one course: update_user_learning_progress *)

\* `if len(current_curve) > 20: current_curve = current_curve[-20:]`
KeepLast == 20
\* `current_curve[-5:]`
RecentWindow == 5

\* quiz_attempt.score: << >> for None, <<v>> for the integer v
ScoreValues == {0, 50, 75, 90, 100}
QuizScores == {<< >>} \cup {<<v>> : v \in ScoreValues}

\* `quiz_attempt.score or 0`
ScoreOrZero(sc) == IF sc = << >> THEN 0 ELSE sc[1]

\* the dictionary appended to the curve ('date' left out)
Entry(score, id) == [overallScore |-> score, attemptId |-> id]

\* seq[-n:]
Last(seq, n) == SubSeq(seq, IF Len(seq) > n THEN Len(seq) - n + 1 ELSE 1, Len(seq))

\* the first twenty entries kept: current_curve[:20]
CurveAfterKeepFirst(curve, entry) ==
  LET c == Append(curve, entry)
  IN  IF Len(c) > KeepLast THEN SubSeq(c, 1, KeepLast) ELSE c

\* append, then keep only the last 20 attempts
CurveAfter(curve, entry) ==
  LET c == Append(curve, entry)
  IN  IF Len(c) > KeepLast THEN Last(c, KeepLast) ELSE c

RECURSIVE Sum(_)
\* sum(recent_scores)
Sum(seq) == IF seq = << >> THEN 0 ELSE Head(seq) + Sum(Tail(seq))

\* integer division: total // count
RoundFloor(total, count) == total \div count

\* round(total / count) for total >= 0: the nearest integer, a tie going to the even one
round(total, count) ==
  LET q == total \div count
      r == total % count
  IN  IF 2 * r < count THEN q
      ELSE IF 2 * r > count THEN q + 1
      ELSE IF q % 2 = 0 THEN q ELSE q + 1

\* overall_progress as lines 770-778 compute it
OverallProgress(curve, score) ==
  IF curve # << >>
  THEN LET recent_scores == [i \in DOMAIN Last(curve, RecentWindow) |->
                               Last(curve, RecentWindow)[i].overallScore]
       IN  IF recent_scores # << >>
           THEN round(Sum(recent_scores), Len(recent_scores))
           ELSE score
  ELSE score

\* 'expert' only above 90
MasteryLevelStrict(p) ==
  IF p > 90 THEN "expert"
  ELSE IF p >= 75 THEN "advanced"
  ELSE IF p >= 50 THEN "intermediate"
  ELSE "beginner"

\* the if / elif chain of lines 781-788
MasteryLevel(p) ==
  IF p >= 90 THEN "expert"
  ELSE IF p >= 75 THEN "advanced"
  ELSE IF p >= 50 THEN "intermediate"
  ELSE "beginner"

\* A record as earlier completions left it: none yet (no record, or one with its
\* defaults), or k completions that all scored the same.
InitProgress ==
  /\ \E k \in 0..KeepLast : \E s0 \in ScoreValues :
       /\ attempts = [i \in 1..k |-> Entry(s0, i)]
       /\ learning_curve = attempts
       /\ overall_progress = IF k = 0 THEN 0 ELSE OverallProgress(learning_curve, s0)
       /\ progressExists \in (IF k = 0 THEN BOOLEAN ELSE {TRUE})
  /\ mastery_level = MasteryLevel(overall_progress)
  /\ calls = 0
  /\ lastReturn = "none"
  /\ MigrationIdle
  /\ BootIdle
  /\ QuizIdle
  /\ PingIdle
  /\ RaceIdle
  /\ CourseIdle

update_user_learning_progress ==
  /\ calls < MaxAttempts
  /\ calls' = calls + 1
  /\ \/ \E sc \in QuizScores :
          LET score == ScoreOrZero(sc)
              current_curve ==
                CurveAfter(IF progressExists THEN learning_curve ELSE << >>,
                           Entry(score, Len(attempts) + 1))
          IN  /\ progressExists' = TRUE
              /\ learning_curve' = current_curve
              /\ overall_progress' = OverallProgress(current_curve, score)
              /\ mastery_level' = MasteryLevel(overall_progress')
              /\ attempts' = Append(attempts, Entry(score, Len(attempts) + 1))
              /\ lastReturn' = "progress"
     \/ /\ lastReturn' = "None"       \* the query raises: caught, return None
        /\ UNCHANGED <<progressExists, learning_curve, overall_progress, mastery_level,
                       attempts>>
  /\ UNCHANGED <<migrationVars, bootVars, quizVars, pingVars, raceVars, courseVars>>

NextProgress == update_user_learning_progress

SpecProgress == InitProgress /\ [][NextProgress]_vars

----------------------------------------------------------------------------
(* The quiz routes *)

Users == {"u1", "u2"}

\* the UserCourse rows: id -> user_id
CourseOwner == ("1" :> "u1") @@ ("2" :> "u2")

\* course ids a URL can carry: the two courses and one that does not exist
CourseIds == {"1", "2", "3"}

\* What one call of the quiz API ends with: a status ("400" stands for every status
\* the handler does not name), requests.exceptions.Timeout, ConnectionError, or any
\* other exception.
ApiOutcomes == {"201", "503", "400", "Timeout", "ConnectionError", "Error"}

max_retries == 3

\* every failed call retried
RetryableAny(o) == o # "201"

\* the outcomes after which generate_quiz calls again
Retryable(o) == o \in {"503", "Timeout", "ConnectionError"}

\* a quiz saved whatever the status
CreatedAny(o) == o \in {"201", "400"}

\* `if response.status_code == 201`
Created(o) == o = "201"

\* `UserCourse.query.filter_by(id=course_id, user_id=current_user.id).first()`
OwnsCourse(u, c) == c \in DOMAIN CourseOwner /\ CourseOwner[c] = u

InitQuiz ==
  /\ QuizIdle
  /\ MigrationIdle
  /\ BootIdle
  /\ ProgressIdle
  /\ PingIdle
  /\ RaceIdle
  /\ CourseIdle

\* generate_quiz up to its retry loop
generate_quiz ==
  /\ qPc \in {"idle", "done"}
  /\ \E u \in Users : \E c \in CourseIds :
       /\ qHandler' = "generate_quiz"
       /\ qUser' = u
       /\ qArg' = c
       /\ qOwned' = OwnsCourse(u, c)
       /\ \/ /\ ~OwnsCourse(u, c)          \* 404
             /\ qAnswer' = 404
             /\ qPc' = "done"
          \/ /\ OwnsCourse(u, c)
             /\ qAnswer' = 0
             /\ qPc' = "loop"
          \/ /\ qAnswer' = 500             \* a query raises: the handler of line 1042
             /\ qPc' = "done"
  /\ qCalls' = << >>
  /\ qCommits' = 0
  /\ UNCHANGED <<courseQuizzes, quizAttempts, progressOf>>
  /\ UNCHANGED <<migrationVars, bootVars, progressVars, pingVars, raceVars, courseVars>>

\* one pass of `for attempt in range(max_retries)`, and what follows the loop
quiz_api_call ==
  /\ qPc = "loop"
  /\ \E o \in ApiOutcomes :
       /\ qCalls' = Append(qCalls, o)
       /\ IF Created(o)
          THEN /\ Cardinality(courseQuizzes) < MaxQuizRows
               /\ qPc' = "done"
               /\ \/ /\ courseQuizzes' = courseQuizzes \cup
                          {[quiz_api_id |-> "q" \o ToString(Cardinality(courseQuizzes) + 1),
                            user_course_id |-> qArg]}
                     /\ qCommits' = qCommits + 1
                     /\ qAnswer' = 200
                  \/ /\ qAnswer' = 500     \* the body lacks a field, or the commit raises
                     /\ UNCHANGED <<courseQuizzes, qCommits>>
          ELSE /\ UNCHANGED <<courseQuizzes, qCommits>>
               /\ IF o = "Error"
                  THEN /\ qAnswer' = 500   \* the handler of line 1042
                       /\ qPc' = "done"
                  ELSE IF Retryable(o) /\ Len(qCalls') < max_retries
                  THEN /\ qAnswer' = 0     \* sleep, continue
                       /\ qPc' = "loop"
                  ELSE /\ qAnswer' = 503   \* break, or the loop is exhausted
                       /\ qPc' = "done"
  /\ UNCHANGED <<quizAttempts, progressOf, qHandler, qUser, qArg, qOwned>>
  /\ UNCHANGED <<migrationVars, bootVars, progressVars, pingVars, raceVars, courseVars>>

\* quiz ids a URL can carry: those the quiz API hands out, and one it never does
QuizIds == {"q1", "q9"}

\* attempt ids a URL can carry: the one the quiz API answers with, and one it never does
AttemptApiIds == {"a1", "a9"}

\* What a call of the other routes ends with: the status that counts as success, any
\* other status, or an exception (caught inside the endpoint loop: no response).
CallOutcomes == {"200", "400", "Error"}

\* `results.score` of a completion
ResultScores == {90}

\* the CourseQuiz rows `filter_by(quiz_api_id=quiz_id)` finds
QuizRows(q) == {r \in courseQuizzes : r.quiz_api_id = q}

\* the quiz is known and its course is a course of u
OwnsQuiz(u, q) == \E r \in QuizRows(q) : OwnsCourse(u, r.user_course_id)

\* the check that looks the quiz up and nothing more
OwnershipAnswerAnyUser(u, q) == IF QuizRows(q) = {} THEN 404 ELSE 0

\* the answer of the ownership check: 404, 403, or 0 when the check passes
OwnershipAnswer(u, q) ==
  IF QuizRows(q) = {} THEN 404 ELSE IF ~OwnsQuiz(u, q) THEN 403 ELSE 0

\* get_quiz_details: DB unchanged on every path
get_quiz_details ==
  /\ qPc \in {"idle", "done"}
  /\ \E u \in Users : \E q \in QuizIds : \E o \in CallOutcomes :
       /\ qHandler' = "get_quiz_details"
       /\ qUser' = u
       /\ qArg' = q
       /\ qOwned' = OwnsQuiz(u, q)
       /\ \/ /\ qAnswer' = 503                 \* check_service_health is False
             /\ qCalls' = << >>
          \/ /\ qAnswer' = 500                 \* a query raises: the handler of line 1118
             /\ qCalls' = << >>
          \/ /\ OwnershipAnswer(u, q) # 0
             /\ qAnswer' = OwnershipAnswer(u, q)
             /\ qCalls' = << >>
          \/ /\ OwnershipAnswer(u, q) = 0
             /\ qCalls' = <<o>>                \* GET /quiz/:quizId/from-course
             /\ qAnswer' = IF o = "200" THEN 200 ELSE 500
  /\ qPc' = "done"
  /\ qCommits' = 0
  /\ UNCHANGED <<courseQuizzes, quizAttempts, progressOf>>
  /\ UNCHANGED <<migrationVars, bootVars, progressVars, pingVars, raceVars, courseVars>>

start_quiz_attempt ==
  /\ qPc \in {"idle", "done"}
  /\ \E u \in Users : \E q \in QuizIds : \E o \in CallOutcomes :
       /\ qHandler' = "start_quiz_attempt"
       /\ qUser' = u
       /\ qArg' = q
       /\ qOwned' = OwnsQuiz(u, q)
       /\ \/ /\ qAnswer' = 500                 \* a query raises: the handler of line 1203
             /\ qCalls' = << >>
             /\ qCommits' = 0
             /\ UNCHANGED quizAttempts
          \/ /\ OwnershipAnswer(u, q) # 0
             /\ qAnswer' = OwnershipAnswer(u, q)
             /\ qCalls' = << >>
             /\ qCommits' = 0
             /\ UNCHANGED quizAttempts
          \/ /\ OwnershipAnswer(u, q) = 0
             /\ qCalls' = <<o>>                \* POST /quiz/:quizId/:userId/attempt-from-course
             /\ IF o = "200"                 \* `in [200, 201]`
                THEN /\ Len(quizAttempts) < MaxStarted
                     /\ \/ /\ quizAttempts' =
                                Append(quizAttempts,
                                       [attempt_api_id |-> "a1", user_id |-> u, quiz |-> q,
                                        score |-> << >>, writes |-> 0])
                           /\ qCommits' = 1
                           /\ qAnswer' = 200
                        \/ /\ qAnswer' = 500   \* the commit raises
                           /\ qCommits' = 0
                           /\ UNCHANGED quizAttempts
                ELSE /\ qAnswer' = 500
                     /\ qCommits' = 0
                     /\ UNCHANGED quizAttempts
  /\ qPc' = "done"
  /\ UNCHANGED <<courseQuizzes, progressOf>>
  /\ UNCHANGED <<migrationVars, bootVars, progressVars, pingVars, raceVars, courseVars>>

\* the record update_user_learning_progress finds, or the one it creates
ProgressRecord(key) ==
  IF key \in DOMAIN progressOf THEN progressOf[key]
  ELSE [learning_curve |-> << >>, overall_progress |-> 0, mastery_level |-> "beginner"]

\* update_user_learning_progress on the record of `key`, the attempt's score being `sc`
ProgressAfter(key, sc, id) ==
  LET current_curve == CurveAfter(ProgressRecord(key).learning_curve,
                                  Entry(ScoreOrZero(sc), id))
      overall == OverallProgress(current_curve, ScoreOrZero(sc))
  IN  (key :> [learning_curve |-> current_curve,
               overall_progress |-> overall,
               mastery_level |-> MasteryLevel(overall)]) @@ progressOf

\* the rows `filter_by(attempt_api_id=attempt_id, user_id=current_user.id)` finds
AttemptsOf(u, a) ==
  {id \in DOMAIN quizAttempts :
     quizAttempts[id].attempt_api_id = a /\ quizAttempts[id].user_id = u}

\* the (user, course) whose progress an attempt counts for
ProgressKey(u, id) ==
  <<u, (CHOOSE r \in QuizRows(quizAttempts[id].quiz) : TRUE).user_course_id>>

complete_quiz_attempt ==
  /\ qPc \in {"idle", "done"}
  /\ \E u \in Users : \E a \in AttemptApiIds : \E o \in CallOutcomes :
       /\ qHandler' = "complete_quiz_attempt"
       /\ qUser' = u
       /\ qArg' = a
       /\ qOwned' = (AttemptsOf(u, a) # {})
       /\ \/ /\ qAnswer' = 500                 \* a query raises: rollback (line 1316)
             /\ qCalls' = << >>
             /\ qCommits' = 0
             /\ UNCHANGED <<quizAttempts, progressOf>>
          \/ /\ AttemptsOf(u, a) = {}
             /\ qAnswer' = 404
             /\ qCalls' = << >>
             /\ qCommits' = 0
             /\ UNCHANGED <<quizAttempts, progressOf>>
          \/ /\ AttemptsOf(u, a) # {}
             /\ qCalls' = <<o>>                \* POST .../complete-from-course
             /\ IF o = "200"
                THEN \E id \in AttemptsOf(u, a) :           \* .first()
                     \E results \in {<< >>} \cup {<<v>> : v \in ResultScores} :
                       LET score == IF results = << >> THEN quizAttempts[id].score
                                    ELSE results
                           attempt == IF results = << >> THEN quizAttempts[id]
                                      ELSE [quizAttempts[id] EXCEPT
                                              !.score = results, !.writes = @ + 1]
                           key == ProgressKey(u, id)
                       IN  /\ quizAttempts[id].writes < MaxCompleted
                           /\ Len(ProgressRecord(key).learning_curve) < MaxCompleted
                           /\ \/ /\ quizAttempts' = [quizAttempts EXCEPT ![id] = attempt]
                                 /\ progressOf' = ProgressAfter(key, score, id)
                                 /\ qCommits' = 1
                                 /\ qAnswer' = 200
                              \/ /\ quizAttempts' = [quizAttempts EXCEPT ![id] = attempt]
                                 /\ UNCHANGED progressOf    \* update_user_learning_progress
                                 /\ qCommits' = 1           \* caught its exception: None
                                 /\ qAnswer' = 200
                              \/ /\ qAnswer' = 500          \* the commit raises: rollback
                                 /\ qCommits' = 0
                                 /\ UNCHANGED <<quizAttempts, progressOf>>
                ELSE /\ qAnswer' = 500
                     /\ qCommits' = 0
                     /\ UNCHANGED <<quizAttempts, progressOf>>
  /\ qPc' = "done"
  /\ UNCHANGED courseQuizzes
  /\ UNCHANGED <<migrationVars, bootVars, progressVars, pingVars, raceVars, courseVars>>

NextQuiz ==
  \/ generate_quiz
  \/ quiz_api_call
  \/ get_quiz_details
  \/ start_quiz_attempt
  \/ complete_quiz_attempt

SpecQuiz == InitQuiz /\ [][NextQuiz]_vars

----------------------------------------------------------------------------
(* SelfPingService *)

\* calls of start_pinging and stop_pinging explored
MaxPingCalls == 5

InitPing ==
  /\ PingIdle
  /\ MigrationIdle
  /\ BootIdle
  /\ ProgressIdle
  /\ QuizIdle
  /\ RaceIdle
  /\ CourseIdle

\* the run_scheduler threads that have not returned
AliveSchedulers == {i \in DOMAIN schedulers : schedulers[i] # "exited"}

\* start_pinging: nothing when running; else set the flag, register the job, start
\* the scheduler thread and the initial ping thread
start_pinging ==
  /\ pingCalls < MaxPingCalls
  /\ pingCalls' = pingCalls + 1
  /\ IF running
     THEN UNCHANGED <<running, jobs, schedulers, initialPings>>
     ELSE /\ running' = TRUE
          /\ jobs' = jobs + 1             \* schedule.every(12).minutes.do(...)
          /\ schedulers' = Append(schedulers, "while")
          /\ initialPings' = Append(initialPings, "sleep")
  /\ UNCHANGED <<migrationVars, bootVars, progressVars, quizVars, raceVars, courseVars>>

\* stop_pinging: clears the flag and nothing else
stop_pinging ==
  /\ pingCalls < MaxPingCalls
  /\ pingCalls' = pingCalls + 1
  /\ running' = FALSE
  /\ UNCHANGED <<jobs, schedulers, initialPings>>
  /\ UNCHANGED <<migrationVars, bootVars, progressVars, quizVars, raceVars, courseVars>>

\* one step of a run_scheduler thread: the test of `while self.running` followed by
\* run_pending, or the end of time.sleep(60)
run_scheduler ==
  /\ \E i \in DOMAIN schedulers :
       \/ /\ schedulers[i] = "while"
          /\ schedulers' = [schedulers EXCEPT ![i] = IF running THEN "sleep" ELSE "exited"]
       \/ /\ schedulers[i] = "sleep"
          /\ schedulers' = [schedulers EXCEPT ![i] = "while"]
  /\ UNCHANGED <<running, jobs, initialPings, pingCalls>>
  /\ UNCHANGED <<migrationVars, bootVars, progressVars, quizVars, raceVars, courseVars>>

\* the initial ping thread: time.sleep(120), then ping_all_services
initial_ping ==
  /\ \E i \in DOMAIN initialPings :
       /\ initialPings[i] = "sleep"
       /\ initialPings' = [initialPings EXCEPT ![i] = "done"]
  /\ UNCHANGED <<running, jobs, schedulers, pingCalls>>
  /\ UNCHANGED <<migrationVars, bootVars, progressVars, quizVars, raceVars, courseVars>>

NextPing ==
  \/ start_pinging
  \/ stop_pinging
  \/ run_scheduler
  \/ initial_ping

SpecPing == InitPing /\ [][NextPing]_vars

----------------------------------------------------------------------------
(* Two invocations of run_auto_migration interleaved on one database *)

\* tables of the managed schema missing from the database before the invocations
MaxMissing == 2

Procs == {1, 2}

\* what a call of the body creates: <<table, "">> or <<table, column>>
ObjectOf(call) == <<call.table, call.column>>
RaceObjects == {ObjectOf(Body[k]) : k \in DOMAIN Body}

InitRace ==
  \E present \in SUBSET AllTables :
  \E legacy \in SUBSET (present \ {students}) :
    /\ Cardinality(AllTables \ present) <= MaxMissing
    /\ Cardinality(legacy) <= MaxLegacy
    /\ schema = [t \in present |-> IF t \in legacy THEN Legacy(t) ELSE UpToDate(t)]
    /\ rows = [t \in present |-> [id \in RowIds(1) |-> InitialRow(schema, t, id, "")]]
    /\ phase = "idle"
    /\ step = 0
    /\ changes_made = FALSE
    /\ txFailed = FALSE
    /\ result = "none"
    /\ startSchema = schema
    /\ startRows = rows
    /\ created = {}
    /\ added = {}
    /\ issued = {}
    /\ envFault = FALSE
    /\ inspectFailed = FALSE
    /\ prevOk = FALSE
    /\ rPc = [p \in Procs |-> "inspect"]
    /\ rStep = [p \in Procs |-> 1]
    /\ rFailed = [p \in Procs |-> "no"]
    /\ timesCreated = [o \in RaceObjects |-> 0]
    /\ BootIdle
    /\ ProgressIdle
    /\ QuizIdle
    /\ PingIdle
    /\ CourseIdle

\* a database that lets a statement create what is already there
AlreadyThereNever(s, call) == FALSE

\* PostgreSQL rejects CREATE TABLE of a table and ADD COLUMN of a column that exists
AlreadyThere(s, call) ==
  IF call.op = "create_table" THEN TableExists(s, call.table)
  ELSE ~ColumnMissing(s, call.table, call.column)

\* the checks of create_table_if_not_exists and check_and_add_column: TRUE when the
\* helper goes on to its statement
WantsStatement(s, call) ==
  IF call.op = "create_table" THEN ~TableExists(s, call.table)
  ELSE TableExists(s, call.table) /\ ColumnMissing(s, call.table, call.column)

StatementRejected(s, call) ==
  IF call.op = "create_table" THEN CreateRejected(s, call.table)
  ELSE Rejected(s, call.definition)

SchemaAfter(s, call) ==
  IF call.op = "create_table" THEN SchemaAfterCreate(s, call.table)
  ELSE SchemaAfterAdd(s, call.table, call.column, call.definition)

RowsAfter(r, call) ==
  IF call.op = "create_table" THEN RowsAfterCreate(r, call.table)
  ELSE RowsAfterAdd(r, call.table, call.column, call.definition)

\* the schema one invocation alone leaves, from call k of the body on
RECURSIVE SchemaAlone(_, _)
SchemaAlone(s, k) ==
  IF k \notin DOMAIN Body THEN s
  ELSE IF ~WantsStatement(s, Body[k]) THEN SchemaAlone(s, k + 1)
  ELSE IF StatementRejected(s, Body[k]) THEN SchemaAlone(s, NextStep(k, TRUE))
  ELSE SchemaAlone(SchemaAfter(s, Body[k]), k + 1)

\* the inspector's queries of a helper: the helper returns False, or goes on to its
\* statement (in a failed transaction the queries raise and the helper returns False)
inspect_schema(p) ==
  /\ rPc[p] = "inspect"
  /\ rStep[p] \in DOMAIN Body
  /\ IF WantsStatement(schema, Body[rStep[p]])
     THEN /\ rPc' = [rPc EXCEPT ![p] = "execute"]
          /\ UNCHANGED rStep
     ELSE /\ rStep' = [rStep EXCEPT ![p] = NextStep(@, FALSE)]
          /\ UNCHANGED rPc
  /\ UNCHANGED <<rFailed, timesCreated>>
  /\ UNCHANGED <<migrationVars, bootVars, progressVars, quizVars, pingVars, courseVars>>

\* conn.execute(text(...)); conn.commit() of a helper
execute_statement(p) ==
  /\ rPc[p] = "execute"
  /\ LET call == Body[rStep[p]]
         why == IF AlreadyThere(schema, call) THEN "duplicate"
                ELSE IF StatementRejected(schema, call) THEN "rejected"
                ELSE "no"
     IN  /\ rFailed' = [rFailed EXCEPT ![p] = why]
         /\ rStep' = [rStep EXCEPT ![p] = NextStep(@, why # "no")]
         /\ IF why = "no"
            THEN /\ schema' = SchemaAfter(schema, call)
                 /\ rows' = RowsAfter(rows, call)
                 /\ timesCreated' = [timesCreated EXCEPT ![ObjectOf(call)] = @ + 1]
            ELSE UNCHANGED <<schema, rows, timesCreated>>
  /\ rPc' = [rPc EXCEPT ![p] = "inspect"]
  /\ UNCHANGED <<phase, step, changes_made, txFailed, result, startSchema, startRows,
                 created, added, issued, envFault, inspectFailed, prevOk>>
  /\ UNCHANGED <<bootVars, progressVars, quizVars, pingVars, courseVars>>

\* the UPDATE of the legacy records of one invocation
update_legacy(p) ==
  /\ rPc[p] = "inspect"
  /\ rStep[p] = UpdateStep
  /\ rStep' = [rStep EXCEPT ![p] = ReturnStep]
  /\ IF UpdateRejected(schema)
     THEN /\ rFailed' = [rFailed EXCEPT ![p] = "rejected"]
          /\ UNCHANGED rows
     ELSE /\ rows' = RowsAfterUpdate(rows)
          /\ UNCHANGED rFailed
  /\ UNCHANGED <<rPc, timesCreated>>
  /\ UNCHANGED <<schema, phase, step, changes_made, txFailed, result, startSchema,
                 startRows, created, added, issued, envFault, inspectFailed, prevOk>>
  /\ UNCHANGED <<bootVars, progressVars, quizVars, pingVars, courseVars>>

\* `return True` of one invocation
return_from_run(p) ==
  /\ rPc[p] = "inspect"
  /\ rStep[p] = ReturnStep
  /\ rPc' = [rPc EXCEPT ![p] = "returned"]
  /\ UNCHANGED <<rStep, rFailed, timesCreated>>
  /\ UNCHANGED <<migrationVars, bootVars, progressVars, quizVars, pingVars, courseVars>>

NextRace ==
  \E p \in Procs :
    \/ inspect_schema(p)
    \/ execute_statement(p)
    \/ update_legacy(p)
    \/ return_from_run(p)

SpecRace == InitRace /\ [][NextRace]_vars

----------------------------------------------------------------------------
(* The enrolment and course routes *)

\* enroll_course requests explored
MaxEnrolments == 2

\* request.form.get('course'): NoValue when the field is missing
CourseNames == {"python", NoValue}

\* request.form.get('status')
StatusValues == {"enrolled", "in_progress", "completed", "archived", NoValue}

InitCourse ==
  /\ CourseIdle
  /\ MigrationIdle
  /\ BootIdle
  /\ ProgressIdle
  /\ QuizIdle
  /\ PingIdle
  /\ RaceIdle

\* `UserCourse.query.filter_by(user_id=current_user.id, course_name=course)`
Enrolled(u, c) ==
  {i \in DOMAIN userCourses :
     userCourses[i].user_id = u /\ userCourses[i].course_name = c}

\* a table without its constraint
UniqueViolationNever(u, c) == FALSE

\* CONSTRAINT skillstown_user_course_unique UNIQUE (user_id, course_name)
UniqueViolation(u, c) == Enrolled(u, c) # {}

\* course_name VARCHAR(255) NOT NULL
NotNullViolation(c) == c = NoValue

\* `UserCourse.query.filter_by(id=course_id, user_id=current_user.id).first_or_404()`
OwnCourse(u, id) == id \in DOMAIN userCourses /\ userCourses[id].user_id = u

\* enroll_course up to its answer or, when the query finds no row, up to the insert
enroll_course ==
  /\ Len(enrolRequests) < MaxEnrolments
  /\ \E u \in Users : \E c \in CourseNames :
       IF Enrolled(u, c) # {}
       THEN /\ enrolRequests' = Append(enrolRequests,
                                       [user |-> u, course |-> c, answer |-> "success_false"])
            /\ cAnswer' = "success_false"
       ELSE /\ enrolRequests' = Append(enrolRequests,
                                       [user |-> u, course |-> c, answer |-> "pending"])
            /\ UNCHANGED cAnswer
  /\ UNCHANGED <<userCourses, courseDetails>>
  /\ UNCHANGED <<migrationVars, bootVars, progressVars, quizVars, pingVars, raceVars>>

\* db.session.add(user_course); db.session.commit() of a request: the row is in the
\* table, or the database rejects it and the IntegrityError leaves the handler
enroll_commit ==
  /\ \E k \in DOMAIN enrolRequests :
       LET q == enrolRequests[k]
       IN  /\ q.answer = "pending"
           /\ IF NotNullViolation(q.course) \/ UniqueViolation(q.user, q.course)
              THEN /\ enrolRequests' = [enrolRequests EXCEPT ![k].answer = "500"]
                   /\ cAnswer' = "500"
                   /\ UNCHANGED userCourses
              ELSE /\ enrolRequests' = [enrolRequests EXCEPT ![k].answer = "success_true"]
                   /\ cAnswer' = "success_true"
                   /\ userCourses' = Append(userCourses,
                        [user_id |-> q.user, course_name |-> q.course, status |-> "enrolled"])
  /\ UNCHANGED courseDetails
  /\ UNCHANGED <<migrationVars, bootVars, progressVars, quizVars, pingVars, raceVars>>

\* course_detail: the CourseDetail row of the course is read, or created
course_detail ==
  /\ \E u \in Users : \E id \in 1..MaxEnrolments :
       IF ~OwnCourse(u, id)
       THEN /\ cAnswer' = "404"
            /\ UNCHANGED courseDetails
       ELSE /\ cAnswer' = "200"
            /\ courseDetails' =
                 IF id \in DOMAIN courseDetails THEN courseDetails
                 ELSE (id :> [progress_percentage |-> 0, completed_at |-> FALSE])
                      @@ courseDetails
  /\ UNCHANGED <<userCourses, enrolRequests>>
  /\ UNCHANGED <<migrationVars, bootVars, progressVars, quizVars, pingVars, raceVars>>

update_course_status ==
  /\ \E u \in Users : \E id \in 1..MaxEnrolments : \E new_status \in StatusValues :
       IF ~OwnCourse(u, id)
       THEN /\ cAnswer' = "404"
            /\ UNCHANGED <<userCourses, courseDetails>>
       ELSE /\ cAnswer' = "302"
            /\ IF new_status \in {"enrolled", "in_progress", "completed"}
               THEN /\ userCourses' = [userCourses EXCEPT ![id].status = new_status]
                    /\ courseDetails' =
                         IF new_status = "completed" /\ id \in DOMAIN courseDetails
                         THEN [courseDetails EXCEPT
                                 ![id] = [progress_percentage |-> 100, completed_at |-> TRUE]]
                         ELSE courseDetails
               ELSE UNCHANGED <<userCourses, courseDetails>>
  /\ UNCHANGED enrolRequests
  /\ UNCHANGED <<migrationVars, bootVars, progressVars, quizVars, pingVars, raceVars>>

NextCourse ==
  \/ enroll_course
  \/ enroll_commit
  \/ course_detail
  \/ update_course_status

SpecCourse == InitCourse /\ [][NextCourse]_vars

----------------------------------------------------------------------------
(* Properties *)

Returned == phase = "returned" /\ step > 0      \* the body ran and the call returned
NoFailure == ~txFailed                          \* no statement of this invocation failed

\* the DDL statements of this invocation that failed
FailedStatements ==
  {st \in issued : \/ st.op = "create_table" /\ st.table \notin created
                   \/ st.op = "add_column" /\ <<st.table, st.column>> \notin added}

\* the managed tables a table's CREATE statement references
ManagedRefs(t) ==
  {RefOf(CreateSql(t)[i][2]) : i \in DOMAIN CreateSql(t)} \cap ManagedTables

\* the position of a statement in the body
Pos(st) == CHOOSE i \in DOMAIN Body : Body[i] = st

\* the pairs that test_migration checks
critical_checks ==
  << <<quiz_attempts, "attempt_api_id">>,
     <<quiz_attempts, "course_quiz_id">>,
     <<course_quizzes, "quiz_api_id">>,
     <<learning_progress, "mastery_level">>,
     <<students, "quiz_user_uuid">> >>

\* every table and every column that the body names was there when the invocation started
UpToDateAtStart ==
  \A i \in DOMAIN Body :
    /\ Body[i].table \in DOMAIN startSchema
    /\ Body[i].op = "add_column" => Body[i].column \in DOMAIN startSchema[Body[i].table]

\* C1: an invocation that follows one that returned True and met no outside failure
\* creates no table, adds no column, keeps changes_made false and leaves the schema
\* as the first one left it.
C1_Idempotent ==
  prevOk => /\ created = {}
            /\ added = {}
            /\ changes_made = FALSE
            /\ schema = startSchema

C1_Witness ==
  /\ prevOk
  /\ Returned
  /\ result = "True"
  /\ NoFailure
  /\ ManagedTables \subseteq DOMAIN schema

\* C2 as stated: every row and every value that was there when the invocation started
\* is the same afterwards, attempt_api_id included.
C2_DataUntouched ==
  \A t \in DOMAIN startRows :
    /\ DOMAIN rows[t] = DOMAIN startRows[t]
    /\ \A id \in DOMAIN startRows[t] : \A c \in DOMAIN startRows[t][id] :
         rows[t][id][c] = startRows[t][id][c]

\* C2 amended: rows are neither added nor removed, and every value that was there is the
\* same afterwards, except an attempt_api_id of skillstown_quiz_attempts that was NULL
\* or empty, which may have become 'legacy-' followed by the row's id.
C2_DataUntouchedButBackfill ==
  \A t \in DOMAIN startRows :
    /\ DOMAIN rows[t] = DOMAIN startRows[t]
    /\ \A id \in DOMAIN startRows[t] : \A c \in DOMAIN startRows[t][id] :
         \/ rows[t][id][c] = startRows[t][id][c]
         \/ /\ t = quiz_attempts
            /\ c = "attempt_api_id"
            /\ startRows[t][id][c] \in {NULL, ""}
            /\ rows[t][id][c] = LegacyValue(startRows[t][id]["id"])

C2_Witness ==
  /\ Returned
  /\ quiz_attempts \in DOMAIN startRows
  /\ \E id \in DOMAIN startRows[quiz_attempts] :
       /\ "attempt_api_id" \in DOMAIN startRows[quiz_attempts][id]
       /\ startRows[quiz_attempts][id]["attempt_api_id"] = "tok"
       /\ rows[quiz_attempts][id]["attempt_api_id"] = "tok"
  /\ added # {}
  /\ NoFailure

\* C3 as stated: when a step of the invocation failed, the schema after it is the schema
\* before it.
C3_FailureLeavesSchema ==
  (Returned /\ txFailed) => schema = startSchema

\* C4 as stated: when a CREATE TABLE or an ALTER TABLE ADD COLUMN of the invocation
\* failed, the invocation returns False.
C4_FailureReturnsFalse ==
  (Returned /\ FailedStatements # {}) => result = "False"

\* C5 as stated: from a database with no table at all, one invocation leaves every
\* managed table in place with every column of its CREATE statement and of its list.
C5_EmptyDatabase ==
  (Returned /\ ~envFault /\ DOMAIN startSchema = {}) =>
    \A t \in ManagedTables :
      /\ t \in DOMAIN schema
      /\ DOMAIN UpToDate(t) \subseteq DOMAIN schema[t]

\* C6 as stated: after an invocation in which nothing failed, a managed table that
\* was there before has every column of its CREATE statement.
C6_LegacyRepaired ==
  (Returned /\ NoFailure) =>
    \A t \in ManagedTables \cap DOMAIN startSchema :
      \A i \in DOMAIN CreateSql(t) : CreateSql(t)[i][1] \in DOMAIN schema[t]

\* C7 as stated: after an invocation in which nothing failed, the managed tables and
\* their columns are those that an invocation from no managed table at all leaves.
C7_Converges ==
  (Returned /\ NoFailure) =>
    \A t \in ManagedTables :
      /\ t \in DOMAIN schema
      /\ DOMAIN schema[t] = DOMAIN UpToDate(t)

\* C8: whenever the CREATE statement of a managed table is issued, every managed
\* table it references exists.
C8_DependencyOrder ==
  [][\A t \in ManagedTables :
       (Create(t) \in issued' /\ Create(t) \notin issued) =>
         ManagedRefs(t) \subseteq DOMAIN schema]_vars

C8_Witness ==
  /\ {user_courses, course_details, course_quizzes, quiz_attempts} \subseteq created
  /\ Returned

\* C9: an invocation that starts with every table and every column it names in place
\* issues no CREATE TABLE and no ALTER TABLE, leaves the schema as it was, and returns
\* True.
C9_UpToDateNoOp ==
  (UpToDateAtStart /\ phase # "idle" /\ step > 0) =>
    /\ issued = {}
    /\ schema = startSchema
    /\ phase = "returned" => result = "True"

C9_Witness ==
  /\ UpToDateAtStart
  /\ Returned
  /\ result = "True"
  /\ NoFailure

\* C10: in every state of an invocation, every table that was there at its start is
\* there, with every column it had and each column's definition unchanged; and an
\* attempt_api_id that the invocation added keeps the nullable definition it was
\* added with.
C10_AdditiveOnly ==
  /\ \A t \in DOMAIN startSchema :
       /\ t \in DOMAIN schema
       /\ \A c \in DOMAIN startSchema[t] :
            /\ c \in DOMAIN schema[t]
            /\ schema[t][c] = startSchema[t][c]
  /\ <<quiz_attempts, "attempt_api_id">> \in added =>
       schema[quiz_attempts]["attempt_api_id"] = "VARCHAR(100)"

C10_Witness ==
  /\ Returned
  /\ NoFailure
  /\ quiz_attempts \in DOMAIN startSchema
  /\ <<quiz_attempts, "attempt_api_id">> \in added
  /\ schema[quiz_attempts]["attempt_api_id"] = "VARCHAR(100)"

\* C11: every step of a running invocation moves it forward to the next call or to its
\* return, so it terminates; an invocation that has returned has returned True or
\* False, never an exception; and one that returned because DATABASE_URL is missing or
\* the connection did not open returned False, issued no statement and left the schema
\* and the rows as they were.
C11_NoFaultEscapes ==
  [][/\ phase = "running" => (phase' = "running" /\ step' > step) \/ phase' = "returned"
     /\ phase' = "returned" => result' \in {"True", "False"}
     /\ (phase' = "returned" /\ step' = 0) =>
          /\ result' = "False"
          /\ issued' = {}
          /\ schema' = schema
          /\ rows' = rows]_vars

C11_Witness ==
  /\ phase = "returned"
  /\ step = 0
  /\ result = "False"
  /\ issued = {}
  /\ prevOk

C15_IntrospectionAborts ==
  [][(phase = "running" /\ inspectFailed) =>
       /\ issued' = issued
       /\ phase' = "returned" => result' = "False"]_vars

\* C16 as stated: after an invocation that returned True with skillstown_quiz_attempts
\* in place, no row of it has attempt_api_id NULL or empty, a row that had it NULL or
\* empty (or had no such column) holds 'legacy-' followed by its id, and a row that had
\* a non-empty value keeps it.
C16_Backfill ==
  (Returned /\ result = "True" /\ quiz_attempts \in DOMAIN schema) =>
    /\ "attempt_api_id" \in DOMAIN schema[quiz_attempts]
    /\ \A id \in DOMAIN rows[quiz_attempts] :
         LET before == IF "attempt_api_id" \in DOMAIN startRows[quiz_attempts][id]
                       THEN startRows[quiz_attempts][id]["attempt_api_id"]
                       ELSE NULL
             after == rows[quiz_attempts][id]["attempt_api_id"]
         IN  /\ after \notin {NULL, ""}
             /\ before \in {NULL, ""} => after = LegacyValue(rows[quiz_attempts][id]["id"])
             /\ before \notin {NULL, ""} => after = before

\* C17 as stated: after an invocation that returned True, every pair that
\* test_migration checks is in place.
C17_SuccessImpliesCritical ==
  (Returned /\ result = "True") =>
    \A i \in DOMAIN critical_checks :
      /\ critical_checks[i][1] \in DOMAIN schema
      /\ critical_checks[i][2] \in DOMAIN schema[critical_checks[i][1]]

\* C12: once init_database has been entered, whatever run_auto_migration returns and
\* whether or not db.create_all() raises, start-up goes on: db.create_all() is called,
\* the routes are registered and create_app returns the application.
C12_LogAndContinue ==
  (pc = "init_database") ~>
    (pc = "serving" /\ createAll # "not_called" /\ routesRegistered)

C12_Witness ==
  /\ pc = "serving"
  /\ migrationCalls = 1
  /\ migrationResult = "False"
  /\ createAll = "done"
  /\ routesRegistered

\* C13: a create_app call invokes run_auto_migration at most once; once init_database
\* is past the call it has invoked it exactly once when RENDER is set to a non-empty
\* value, DATABASE_URL starts with 'postgres' or FLASK_ENV is 'production', and not at
\* all otherwise; and no request is served and the self-ping thread is not started
\* before that invocation has returned.
C13_OnceInProduction ==
  LET production == \/ RENDER \notin {NoValue, ""}
                    \/ DATABASE_URL \in {"postgres://db/skillstown",
                                         "postgresql://db/skillstown"}
                    \/ FLASK_ENV = "production"
      past == pc \notin {"start", "init_database", "run_auto_migration"}
  IN  /\ migrationCalls <= 1
      /\ ~production => migrationCalls = 0
      /\ (past /\ production) => (migrationCalls = 1 /\ migrationResult \in {"True", "False"})
      /\ (requests > 0 \/ pingThread # "none") => past

C13_Witness ==
  /\ RENDER = NoValue
  /\ FLASK_ENV = NoValue
  /\ DATABASE_URL = "postgres://db/skillstown"
  /\ migrationCalls = 1
  /\ pingThread = "pinging"
  /\ requests > 0

\* C18: after a call of update_user_learning_progress that returned the record,
\* mastery_level is 'expert' exactly when overall_progress >= 90, 'advanced' exactly
\* when 75 <= overall_progress < 90, 'intermediate' exactly when
\* 50 <= overall_progress < 75 and 'beginner' exactly when overall_progress < 50.
C18_MasteryFollowsProgress ==
  lastReturn = "progress" =>
    /\ mastery_level = "expert" <=> overall_progress >= 90
    /\ mastery_level = "advanced" <=> (75 <= overall_progress /\ overall_progress < 90)
    /\ mastery_level = "intermediate" <=> (50 <= overall_progress /\ overall_progress < 75)
    /\ mastery_level = "beginner" <=> overall_progress < 50

C18_Witness ==
  /\ lastReturn = "progress"
  /\ calls >= 2
  /\ overall_progress = 90
  /\ mastery_level = "expert"

\* C19: learning_curve never holds more than 20 entries, and they are the last
\* min(n, 20) of the n entries recorded so far, in the order they were recorded.
C19_BoundedCurve ==
  LET n == Len(attempts)
      m == IF n < 20 THEN n ELSE 20
  IN  /\ Len(learning_curve) <= 20
      /\ Len(learning_curve) = m
      /\ \A i \in 1..m : learning_curve[i] = attempts[n - m + i]

C19_Witness ==
  /\ Len(attempts) > 20
  /\ Len(learning_curve) = 20
  /\ learning_curve[1].attemptId = Len(attempts) - 19
  /\ calls >= 2

\* C20: after a call that returned the record, overall_progress is an integer nearest
\* to the arithmetic mean of the overallScore of the last min(n, 5) entries of
\* learning_curve; it lies in 0..100; and after a single attempt it is that attempt's
\* score.
C20_RecentAverage ==
  lastReturn = "progress" =>
    LET n == Len(learning_curve)
        m == IF n < 5 THEN n ELSE 5
        total == Sum([i \in 1..m |-> learning_curve[n - m + i].overallScore])
        d == m * overall_progress - total
    IN  /\ m > 0
        /\ 2 * d <= m
        /\ -2 * d <= m
        /\ overall_progress \in 0..100
        /\ Len(attempts) = 1 => overall_progress = attempts[1].overallScore

C20_Witness ==
  /\ lastReturn = "progress"
  /\ Len(learning_curve) >= 5
  /\ calls = 3
  /\ overall_progress \notin ScoreValues
  /\ learning_curve[Len(learning_curve)].overallScore = 100
  /\ learning_curve[Len(learning_curve) - 1].overallScore = 90

\* C21 as stated: a generate_quiz request calls the quiz API at most 3 times; every
\* call that is followed by another ended with 503, a timeout or a connection error;
\* and when no call returned 201 the handler answers 503.
C21_BoundedRetry ==
  qHandler = "generate_quiz" =>
    /\ Len(qCalls) <= 3
    /\ \A i \in 1..(Len(qCalls) - 1) : qCalls[i] \in {"503", "Timeout", "ConnectionError"}
    /\ (qPc = "done" /\ \A i \in DOMAIN qCalls : qCalls[i] # "201") => qAnswer = 503

\* C21 amended: at most 3 calls; every call that is followed by another ended with 503,
\* a timeout or a connection error; when the loop was entered and no call returned 201
\* or raised another exception the handler answers 503; a request for a course that is
\* not the user's answers 404 without any call; and a request in which a query or a
\* call raised another exception answers 500.
C21_BoundedRetryFromLoop ==
  qHandler = "generate_quiz" =>
    /\ Len(qCalls) <= 3
    /\ \A i \in 1..(Len(qCalls) - 1) : qCalls[i] \in {"503", "Timeout", "ConnectionError"}
    /\ (qPc = "done" /\ qCalls # << >> /\ \A i \in DOMAIN qCalls : qCalls[i] \notin {"201", "Error"})
         => qAnswer = 503
    /\ (qPc = "done" /\ \A i \in DOMAIN qCalls : qCalls[i] # "201") => qAnswer \in {503, 404, 500}
    /\ qAnswer = 404 => (~qOwned /\ qCalls = << >>)
    /\ (qAnswer = 500 /\ qCalls # << >>) => qCalls[Len(qCalls)] \in {"Error", "201"}

C21_Witness ==
  /\ qHandler = "generate_quiz"
  /\ qPc = "done"
  /\ qCalls = <<"503", "Timeout", "ConnectionError">>
  /\ qAnswer = 503

\* C22 as stated: a step of generate_quiz changes the CourseQuiz rows only by adding
\* one row, right after a call that returned 201, and the handler returns with it; a
\* finished request has committed a row exactly when one of its calls returned 201,
\* and never more than one; and a 201 is the last call of its request.
C22_QuizOnlyOnSuccess ==
  [][qHandler' = "generate_quiz" =>
       /\ courseQuizzes' # courseQuizzes =>
            /\ courseQuizzes \subseteq courseQuizzes'
            /\ Cardinality(courseQuizzes') = Cardinality(courseQuizzes) + 1
            /\ qCalls'[Len(qCalls')] = "201"
            /\ qPc' = "done"
            /\ qCommits' = 1
       /\ qCommits' <= 1
       /\ qPc' = "done" => (qCommits' = 1 <=> \E i \in DOMAIN qCalls' : qCalls'[i] = "201")
       /\ (\E i \in DOMAIN qCalls' : qCalls'[i] = "201") =>
            (qPc' = "done" /\ qCalls'[Len(qCalls')] = "201")]_vars

\* C22 amended: as above, but a finished request has committed a row exactly when one
\* of its calls returned 201 and saving the quiz raised no exception (a 201 whose body
\* lacks a field, or a commit that fails, answers 500 and leaves no row).
C22_QuizOnlyOnSavedSuccess ==
  [][qHandler' = "generate_quiz" =>
       /\ courseQuizzes' # courseQuizzes =>
            /\ courseQuizzes \subseteq courseQuizzes'
            /\ Cardinality(courseQuizzes') = Cardinality(courseQuizzes) + 1
            /\ qCalls'[Len(qCalls')] = "201"
            /\ qPc' = "done"
            /\ qCommits' = 1
       /\ qCommits' <= 1
       /\ qPc' = "done" =>
            (qCommits' = 1 <=> (qAnswer' # 500 /\ \E i \in DOMAIN qCalls' : qCalls'[i] = "201"))
       /\ (\E i \in DOMAIN qCalls' : qCalls'[i] = "201") =>
            (qPc' = "done" /\ qCalls'[Len(qCalls')] = "201")]_vars

C22_Witness ==
  /\ qHandler = "generate_quiz"
  /\ qCalls = <<"503", "201">>
  /\ qAnswer = 200
  /\ qCommits = 1
  /\ courseQuizzes # {}

\* C23 as stated: get_quiz_details and start_quiz_attempt call the quiz API, and
\* start_quiz_attempt stores an attempt, only when the quiz is a quiz of a course of
\* the current user; otherwise they answer 404 or 403 and change no row; and
\* complete_quiz_attempt changes only attempts of the current user.
C23_QuizOwnership ==
  [][/\ qHandler' \in {"get_quiz_details", "start_quiz_attempt"} =>
          /\ qCalls' # << >> => qOwned'
          /\ quizAttempts' # quizAttempts => qOwned'
          /\ ~qOwned' =>
               /\ qAnswer' \in {404, 403}
               /\ UNCHANGED <<courseQuizzes, quizAttempts, progressOf>>
     /\ qHandler' = "complete_quiz_attempt" =>
          \A id \in DOMAIN quizAttempts :
            quizAttempts'[id] # quizAttempts[id] => quizAttempts[id].user_id = qUser']_vars

\* C23 amended: as above, but a request for a quiz that is not the user's answers 404
\* (quiz unknown), 403 (course of another user), 503 (get_quiz_details, when the health
\* check of the quiz service fails, which comes before the ownership check) or 500 (an
\* exception), in every case without the quiz being asked of the quiz API and without
\* any row changed.
C23_QuizOwnershipOrUnavailable ==
  [][/\ qHandler' \in {"get_quiz_details", "start_quiz_attempt"} =>
          /\ qCalls' # << >> => qOwned'
          /\ quizAttempts' # quizAttempts => qOwned'
          /\ ~qOwned' =>
               /\ qAnswer' \in {404, 403, 503, 500}
               /\ qAnswer' = 503 => qHandler' = "get_quiz_details"
               /\ qAnswer' = 404 => QuizRows(qArg') = {}
               /\ qAnswer' = 403 => QuizRows(qArg') # {}
               /\ qCalls' = << >>
               /\ UNCHANGED <<courseQuizzes, quizAttempts, progressOf>>
     /\ qHandler' = "complete_quiz_attempt" =>
          \A id \in DOMAIN quizAttempts :
            quizAttempts'[id] # quizAttempts[id] => quizAttempts[id].user_id = qUser']_vars

C23_Witness ==
  /\ qHandler = "start_quiz_attempt"
  /\ qAnswer = 403
  /\ ~qOwned
  /\ qCalls = << >>
  /\ Len(quizAttempts) = 1
  /\ quizAttempts[1].user_id # qUser

\* C24 as stated: a complete_quiz_attempt request commits at most once; it never
\* commits the attempt's result fields without the learning-progress update; and when
\* it does not answer 200 neither the attempt nor the progress record has changed.
C24_CompletionAllOrNothing ==
  [][qHandler' = "complete_quiz_attempt" =>
       /\ qCommits' <= 1
       /\ quizAttempts' # quizAttempts => progressOf' # progressOf
       /\ qAnswer' # 200 => UNCHANGED <<quizAttempts, progressOf>>]_vars

\* C29 as stated: a complete_quiz_attempt request that got 200 from the quiz API and
\* committed has appended exactly one entry to the learning curve of the user and the
\* course of the attempt, with the attempt's stored score (0 when it has none).
C29_OneEntryPerCompletion ==
  [][(qHandler' = "complete_quiz_attempt" /\ qAnswer' = 200) =>
       \E id \in AttemptsOf(qUser', qArg') :
         LET key == ProgressKey(qUser', id)
         IN  /\ key \in DOMAIN progressOf'
             /\ progressOf'[key].learning_curve =
                  Append(ProgressRecord(key).learning_curve,
                         Entry(ScoreOrZero(quizAttempts'[id].score), id))]_vars

\* C25 as stated: at any time at most one run_scheduler thread is alive and at most
\* one job is registered with the scheduler.
C25_SinglePingScheduler ==
  /\ Cardinality(AliveSchedulers) <= 1
  /\ jobs <= 1

\* C26: when two interleaved invocations of run_auto_migration have both returned, the
\* schema is the schema one invocation alone leaves from the same database; and no
\* table and no column is ever created by more than one committed statement.
C26_InterleavedMigrations ==
  /\ (\A p \in Procs : rPc[p] = "returned") => schema = SchemaAlone(startSchema, 1)
  /\ \A o \in DOMAIN timesCreated : timesCreated[o] <= 1

C26_Witness ==
  /\ \A p \in Procs : rPc[p] = "returned"
  /\ \E p \in Procs : rFailed[p] = "duplicate"
  /\ \E o \in DOMAIN timesCreated : timesCreated[o] = 1
  /\ schema = SchemaAlone(startSchema, 1)
  /\ schema # startSchema

\* C27: after every step no two UserCourse rows have the same user_id and course_name,
\* also when the queries and the inserts of several enroll_course requests interleave;
\* and a request whose query finds the course already enrolled answers success false
\* and leaves the table unchanged.
C27_NoDoubleEnrolment ==
  [][/\ \A i, j \in DOMAIN userCourses' :
          (/\ userCourses'[i].user_id = userCourses'[j].user_id
           /\ userCourses'[i].course_name = userCourses'[j].course_name) => i = j
     /\ \A k \in DOMAIN enrolRequests' \ DOMAIN enrolRequests :
          Enrolled(enrolRequests'[k].user, enrolRequests'[k].course) # {} =>
            /\ enrolRequests'[k].answer = "success_false"
            /\ userCourses' = userCourses]_vars

C27_Witness ==
  \E k, l \in DOMAIN enrolRequests :
    /\ k < l
    /\ enrolRequests[k].user = enrolRequests[l].user
    /\ enrolRequests[k].course = enrolRequests[l].course
    /\ enrolRequests[k].answer = "500"
    /\ enrolRequests[l].answer = "success_true"
    /\ Cardinality(Enrolled(enrolRequests[k].user, enrolRequests[k].course)) = 1

\* C28 as stated: every UserCourse row has one of the statuses enrolled, in_progress
\* and completed; and a row whose status is completed and that has a CourseDetail row
\* has progress_percentage 100 and completed_at set there.
C28_CompletedMeansFullProgress ==
  \A id \in DOMAIN userCourses :
    /\ userCourses[id].status \in {"enrolled", "in_progress", "completed"}
    /\ (userCourses[id].status = "completed" /\ id \in DOMAIN courseDetails) =>
         /\ courseDetails[id].progress_percentage = 100
         /\ courseDetails[id].completed_at

====
